---- MODULE Spec2Model ----
(***************************************************************************)
(* Model of assets_manager's cache entries and locks (src/lock.rs) and of  *)
(* its cached directories (src/dirs.rs).                                   *)
(*                                                                         *)
(* Spec     : threads operating on one cache slot (CacheEntry, AssetRef,   *)
(*            AssetGuard, RwLock wrapper), panics included.                *)
(* SpecRef  : handles and writes over several cache slots.                 *)
(* SpecLoad : CachedDir::load over a directory listing.                    *)
(* SpecDir  : CachedDir::load and the iterators of DirReader over the      *)
(*            resulting snapshot.                                          *)
(* SpecWait : three threads reading and writing one slot, with the lock's  *)
(*            waiting queue and fair scheduling.                           *)
(* SpecReload : CachedDir::load run again over the same listing and cache. *)
(* SpecHot  : the iterators of DirReader while the source directory        *)
(*            changes.                                                     *)
(***************************************************************************)
EXTENDS Integers, Sequences, FiniteSets, TLC

\* ---------------------------------------------------------------- bounds
NumThreads == 3
NumWorkers == 2
NumSlots == 2
MaxVal == 2

Threads == 1..NumThreads
\* the threads that run every operation; the others only read and write
Workers == 1..NumWorkers
Slots == 1..NumSlots

\* The asset type T of the slots: a two-word structure. A move or a clone of
\* a T copies its words one after the other. NoAsset stands for "no asset".
Asset(v) == <<v, v>>
Assets == {Asset(v) : v \in 1..MaxVal}
NoAsset == <<>>
WordsOfT == Len(Asset(1))

\* the only element of a one-element set
Only(S) == CHOOSE x \in S : TRUE

VARIABLES
    parking_lot,  \* build feature "parking_lot" (lock.rs:11-14)
    writers_first,\* priority policy of sync::RwLock: a queued writer blocks
                  \* new readers (always with parking_lot, OS-dependent
                  \* with std)
    alive,        \* alive[s]: the CacheEntry s exists
    data,         \* data[s]: the words stored in the RwLock<T> of slot s
    rcount,       \* rcount[s]: number of read locks held on slot s
    writer,       \* writer[s]: the threads holding the write lock (0 or 1)
    poisoned,     \* poisoned[s]: std::sync::RwLock poison flag
    pc,           \* pc[t]: call in progress of thread t
    cur,          \* cur[t]: slot of the call in progress ({} when idle)
    arg,          \* arg[t]: asset argument of CacheEntry::write
    href,         \* href[t]: the AssetRef thread t holds ({} when none)
    guard,        \* guard[t]: slot of the AssetGuard thread t holds
    obs,          \* obs[t]: words read so far through the AssetGuard
    ret,          \* ret[t]: words copied so far by AssetRef::cloned
    inner,        \* inner[s]: what into_inner returned for slot s
    fault,        \* a lock operation failed because of poisoning
    fresh,        \* history: no write took the lock since CacheEntry::new
    dirty,        \* history: a write took the lock and has not returned
    prev,         \* history: asset stored before the most recent write
    last          \* history: asset of the most recent write (or of new)

VARIABLES
    ext,          \* A::EXT, the extension of the asset type (dirs.rs:88)
    prefix,       \* the id given to CachedDir::load
    listing,      \* what fs::read_dir enumerates under the id's path
    dpc,          \* position of CachedDir::load
    di,           \* index of the entry the `for` loop is at
    this_id,      \* this_id of the entry being loaded (dirs.rs:98)
    loaded,       \* the Vec `loaded` (dirs.rs:82)
    assets,       \* the StringList of the CachedDir returned (dirs.rs:111)
    loadLog,      \* history: the cache.load calls made by CachedDir::load
    snaps,        \* history: the id lists the calls of CachedDir::load returned
    cached,       \* ids resident in the AssetCache
    it,           \* it[i]: the StringIter of iterator i, and its kind
    yielded,      \* yielded[i]: what next() of iterator i returned so far
    calls,        \* calls[i]: cache capabilities iterator i invoked
    visited,      \* history: visited[i]: the ids the cursor of i passed
    listReaders,  \* read locks held on the StringList's RwLock
    listWriter    \* holders of the write lock of the StringList's RwLock

loadVars == <<ext, prefix, listing, dpc, di, this_id, loaded, assets, loadLog,
              snaps>>
iterVars == <<it, yielded, calls, visited, listReaders, listWriter>>
dirVars == <<loadVars, cached, iterVars>>

lockState == <<alive, data, rcount, writer, poisoned>>
threadState == <<pc, cur, arg, href, guard, obs, ret>>
history == <<fresh, dirty, prev, last>>
build == <<parking_lot, writers_first>>
slotVars == <<build, lockState, threadState, inner, fault, history>>
vars == <<slotVars, dirVars>>

\* ------------------------------------------------------ lock.rs: RwLock
\* std::sync::LockResult<T>: Ok(inner) or Err(PoisonError(inner)).
LockResult(s, x) == [poisoned |-> poisoned[s], inner |-> x]

PoisonError_into_inner(param) == <<param.inner>>

\* a wrap that propagates the poison (param.unwrap())
wrapUnwrap(param) == IF param.poisoned THEN <<>> ELSE <<param.inner>>

\* lock.rs:19-29. The result is <<x>> when wrap returns x, <<>> when it
\* panics.
wrap(param) ==
    IF parking_lot
    THEN <<param.inner>>
    ELSE IF param.poisoned
         THEN PoisonError_into_inner(param)
         ELSE <<param.inner>>

\* a read lock granted although a writer holds the lock
CanReadNoExclusion(s) == TRUE

\* a read lock granted past the queued writers, whatever the policy
CanReadPastQueue(s) == writer[s] = {}

\* a read lock that is not shared with other readers
CanReadAlone(s) == writer[s] = {} /\ rcount[s] = 0

\* the writers queued on the lock of slot s
Queued(s) == {t \in Threads : pc[t] = "w_parked" /\ s \in cur[t]}

\* sync::RwLock::read is granted when no write lock is held and, under the
\* writers-first policy, no writer is queued (lock.rs:50-52)
CanRead(s) == writer[s] = {} /\ (writers_first => Queued(s) = {})

\* a write lock granted although read guards are outstanding
CanWriteNoExclusion(s) == writer[s] = {}

\* a write lock granted to upgrade the last read lock
CanWriteUpgrade(s) == writer[s] = {} /\ rcount[s] <= 1

\* sync::RwLock::write is granted when no lock is held (lock.rs:55-57)
CanWrite(s) == writer[s] = {} /\ rcount[s] = 0

\* the unwinding of a write guard poisons a std lock, never a parking_lot one
PoisonOnUnwind == ~parking_lot

\* --------------------------------------------------- lock.rs: CacheEntry
\* Address of the RwLock<T> boxed by slot s (Box<dyn Any>, lock.rs:101)
BoxAddr(s) == 16 * s

SlotAt(p) == CHOOSE s \in Slots : BoxAddr(s) = p

\* a new() that stores a default asset instead of its argument
NewStoredDefault(v) == Asset(1)

\* CacheEntry::new: the words the boxed RwLock holds (lock.rs:108-110)
NewStored(v) == v

\* CacheEntry::get_ref (lock.rs:118-127); slot and saw are history: the slot
\* the handle was obtained from and the asset last written to it by then
GetRefHandle(s) == [data |-> BoxAddr(s), slot |-> s, saw |-> last[s]]

\* an identity test that compares the stored assets
ptr_eq_by_value(a, b) == data[SlotAt(a.data)] = data[SlotAt(b.data)]

\* AssetRef::ptr_eq (lock.rs:192-194)
ptr_eq(a, b) == a.data = b.data

\* AssetRef::clone (lock.rs:208-214)
CloneHandle(h) == [data |-> h.data, slot |-> h.slot, saw |-> h.saw]

\* an assignment that leaves the stored word alone
StoreWordNowhere(s, i, w) == data

\* `*cached_guard = asset` (lock.rs:137), one word of the move
StoreWord(s, i, w) == [data EXCEPT ![s][i] = w]

\* nobody borrows slot s: no handle, no guard, no call in progress
Exclusive(s) ==
    \A t \in Threads :
        /\ \A h \in href[t] : h.slot # s
        /\ s \notin guard[t]
        /\ s \notin cur[t]

\* CacheEntry::into_inner / RwLock::into_inner (lock.rs:43-45, 148-152)
IntoInnerValue(s) == wrap(LockResult(s, data[s]))

SlotInit ==
    /\ parking_lot \in BOOLEAN
    /\ writers_first \in BOOLEAN
    /\ parking_lot => writers_first
    /\ alive = [s \in Slots |-> FALSE]
    /\ data = [s \in Slots |-> NoAsset]
    /\ rcount = [s \in Slots |-> 0]
    /\ writer = [s \in Slots |-> {}]
    /\ poisoned = [s \in Slots |-> FALSE]
    /\ pc = [t \in Threads |-> "idle"]
    /\ cur = [t \in Threads |-> {}]
    /\ arg = [t \in Threads |-> NoAsset]
    /\ href = [t \in Threads |-> {}]
    /\ guard = [t \in Threads |-> {}]
    /\ obs = [t \in Threads |-> <<>>]
    /\ ret = [t \in Threads |-> <<>>]
    /\ inner = [s \in Slots |-> NoAsset]
    /\ fault = FALSE
    /\ fresh = [s \in Slots |-> FALSE]
    /\ dirty = [s \in Slots |-> FALSE]
    /\ prev = [s \in Slots |-> NoAsset]
    /\ last = [s \in Slots |-> NoAsset]

\* CacheEntry::new (lock.rs:108-110)
New(s, v) ==
    /\ ~alive[s]
    /\ alive' = [alive EXCEPT ![s] = TRUE]
    /\ data' = [data EXCEPT ![s] = NewStored(v)]
    /\ rcount' = [rcount EXCEPT ![s] = 0]
    /\ writer' = [writer EXCEPT ![s] = {}]
    /\ poisoned' = [poisoned EXCEPT ![s] = FALSE]
    /\ inner' = [inner EXCEPT ![s] = NoAsset]
    /\ fresh' = [fresh EXCEPT ![s] = TRUE]
    /\ dirty' = [dirty EXCEPT ![s] = FALSE]
    /\ prev' = [prev EXCEPT ![s] = v]
    /\ last' = [last EXCEPT ![s] = v]
    /\ UNCHANGED <<dirVars, build, threadState, fault>>

\* CacheEntry::get_ref (lock.rs:118-127)
GetRef(t, s) ==
    /\ pc[t] = "idle"
    /\ alive[s]
    /\ href[t] = {}
    /\ href' = [href EXCEPT ![t] = {GetRefHandle(s)}]
    /\ UNCHANGED <<dirVars, build, lockState, pc, cur, arg, guard, obs, ret,
                   inner, fault, history>>

\* AssetRef::clone / Copy (lock.rs:208-216): t copies the handle of u
CloneRef(t, u) ==
    /\ pc[t] = "idle"
    /\ t # u
    /\ href[u] # {}
    /\ href[t] = {}
    /\ href' = [href EXCEPT ![t] = {CloneHandle(Only(href[u]))}]
    /\ UNCHANGED <<dirVars, build, lockState, pc, cur, arg, guard, obs, ret,
                   inner, fault, history>>

\* the borrow of the handle ends
DropRef(t) ==
    /\ pc[t] = "idle"
    /\ href[t] # {}
    /\ href' = [href EXCEPT ![t] = {}]
    /\ UNCHANGED <<dirVars, build, lockState, pc, cur, arg, guard, obs, ret,
                   inner, fault, history>>

\* AssetRef::read is called (lock.rs:184-188)
ReadCall(t) ==
    /\ pc[t] = "idle"
    /\ href[t] # {}
    /\ guard[t] = {}
    /\ pc' = [pc EXCEPT ![t] = "r_wait"]
    /\ cur' = [cur EXCEPT ![t] = {SlotAt(Only(href[t]).data)}]
    /\ UNCHANGED <<dirVars, build, lockState, arg, href, guard, obs, ret,
                   inner, fault, history>>

\* the thread unwinds out of a failed lock operation: what it holds is dropped
Unwound(t) ==
    /\ pc' = [pc EXCEPT ![t] = "panicked"]
    /\ cur' = [cur EXCEPT ![t] = {}]
    /\ arg' = [arg EXCEPT ![t] = NoAsset]
    /\ href' = [href EXCEPT ![t] = {}]
    /\ rcount' = [s \in Slots |-> IF s \in guard[t] THEN rcount[s] - 1
                                  ELSE rcount[s]]
    /\ guard' = [guard EXCEPT ![t] = {}]
    /\ obs' = [obs EXCEPT ![t] = <<>>]
    /\ ret' = [ret EXCEPT ![t] = <<>>]

\* self.data.read() returns: RwLock::read (lock.rs:50-52, 186)
ReadAcquire(t) ==
    /\ pc[t] = "r_wait"
    /\ CanRead(Only(cur[t]))
    /\ LET r == wrap(LockResult(Only(cur[t]), Only(cur[t])))
       IN  IF r = <<>>
           THEN /\ Unwound(t)
                /\ fault' = TRUE
           ELSE /\ pc' = [pc EXCEPT ![t] = "idle"]
                /\ cur' = [cur EXCEPT ![t] = {}]
                /\ rcount' = [rcount EXCEPT ![r[1]] = @ + 1]
                /\ guard' = [guard EXCEPT ![t] = {r[1]}]
                /\ obs' = [obs EXCEPT ![t] = <<>>]
                /\ UNCHANGED <<arg, href, ret, fault>>
    /\ UNCHANGED <<dirVars, build, alive, data, writer, poisoned, inner, history>>

\* AssetGuard::deref (lock.rs:245-252) and the read of one word through it
Deref(t) ==
    /\ pc[t] = "idle"
    /\ guard[t] # {}
    /\ obs' = [obs EXCEPT ![t] =
                  IF Len(@) = WordsOfT
                  THEN <<data[Only(guard[t])][1]>>
                  ELSE Append(@, data[Only(guard[t])][Len(@) + 1])]
    /\ UNCHANGED <<dirVars, build, lockState, pc, cur, arg, href, guard, ret,
                   inner, fault, history>>

\* the AssetGuard is dropped: the read lock is released (lock.rs:241-243)
DropGuard(t) ==
    /\ pc[t] = "idle"
    /\ guard[t] # {}
    /\ rcount' = [rcount EXCEPT ![Only(guard[t])] = @ - 1]
    /\ guard' = [guard EXCEPT ![t] = {}]
    /\ obs' = [obs EXCEPT ![t] = <<>>]
    /\ UNCHANGED <<dirVars, build, alive, data, writer, poisoned, pc, cur, arg,
                   href, ret, inner, fault, history>>

\* AssetRef::cloned is called (lock.rs:203-205)
ClonedCall(t) ==
    /\ pc[t] = "idle"
    /\ href[t] # {}
    /\ guard[t] = {}
    /\ pc' = [pc EXCEPT ![t] = "c_wait"]
    /\ cur' = [cur EXCEPT ![t] = {SlotAt(Only(href[t]).data)}]
    /\ UNCHANGED <<dirVars, build, lockState, arg, href, guard, obs, ret,
                   inner, fault, history>>

\* self.data.read() of cloned returns (lock.rs:204)
ClonedAcquire(t) ==
    /\ pc[t] = "c_wait"
    /\ CanRead(Only(cur[t]))
    /\ LET r == wrap(LockResult(Only(cur[t]), Only(cur[t])))
       IN  IF r = <<>>
           THEN /\ Unwound(t)
                /\ fault' = TRUE
           ELSE /\ pc' = [pc EXCEPT ![t] = "c_held"]
                /\ rcount' = [rcount EXCEPT ![r[1]] = @ + 1]
                /\ ret' = [ret EXCEPT ![t] = <<>>]
                /\ UNCHANGED <<cur, arg, href, guard, obs, fault>>
    /\ UNCHANGED <<dirVars, build, alive, data, writer, poisoned, inner, history>>

\* .clone() copies one word of the asset (lock.rs:204)
ClonedCopy(t) ==
    /\ pc[t] = "c_held"
    /\ Len(ret[t]) < WordsOfT
    /\ ret' = [ret EXCEPT ![t] = Append(@, data[Only(cur[t])][Len(@) + 1])]
    /\ UNCHANGED <<dirVars, build, lockState, pc, cur, arg, href, guard, obs,
                   inner, fault, history>>

\* the temporary read guard of cloned is dropped and the copy returned
ClonedReturn(t) ==
    /\ pc[t] = "c_held"
    /\ Len(ret[t]) = WordsOfT
    /\ rcount' = [rcount EXCEPT ![Only(cur[t])] = @ - 1]
    /\ pc' = [pc EXCEPT ![t] = "idle"]
    /\ cur' = [cur EXCEPT ![t] = {}]
    /\ ret' = [ret EXCEPT ![t] = <<>>]
    /\ UNCHANGED <<dirVars, build, alive, data, writer, poisoned, arg,
                   href, guard, obs, inner, fault, history>>

\* CacheEntry::write is called (lock.rs:134-135)
WriteCall(t, s, v) ==
    /\ pc[t] = "idle"
    /\ alive[s]
    /\ pc' = [pc EXCEPT ![t] = "w_wait"]
    /\ cur' = [cur EXCEPT ![t] = {s}]
    /\ arg' = [arg EXCEPT ![t] = v]
    /\ obs' = [obs EXCEPT ![t] = <<>>]
    /\ UNCHANGED <<dirVars, build, lockState, href, guard, ret,
                   inner, fault, history>>

\* lock.data.write() finds the lock held and queues (lock.rs:55-57, 136)
WritePark(t) ==
    /\ pc[t] = "w_wait"
    /\ ~CanWrite(Only(cur[t]))
    /\ pc' = [pc EXCEPT ![t] = "w_parked"]
    /\ UNCHANGED <<dirVars, build, lockState, cur, arg, href, guard, obs, ret,
                   inner, fault, history>>

\* lock.data.write() returns: RwLock::write (lock.rs:55-57, 136)
WriteAcquire(t) ==
    /\ pc[t] \in {"w_wait", "w_parked"}
    /\ CanWrite(Only(cur[t]))
    /\ LET r == wrap(LockResult(Only(cur[t]), Only(cur[t])))
       IN  IF r = <<>>
           THEN /\ Unwound(t)
                /\ fault' = TRUE
                /\ UNCHANGED <<writer, history>>
           ELSE /\ pc' = [pc EXCEPT ![t] = "w_held"]
                /\ writer' = [writer EXCEPT ![r[1]] = {t}]
                /\ fresh' = [fresh EXCEPT ![r[1]] = FALSE]
                /\ dirty' = [dirty EXCEPT ![r[1]] = TRUE]
                /\ prev' = [prev EXCEPT ![r[1]] = last[r[1]]]
                /\ last' = [last EXCEPT ![r[1]] = arg[t]]
                /\ UNCHANGED <<cur, arg, href, rcount, guard, obs, ret,
                               fault>>
    /\ UNCHANGED <<dirVars, build, alive, data, poisoned, inner>>

\* `*cached_guard = asset` moves one word of the asset (lock.rs:137)
WriteWord(t) ==
    /\ pc[t] \in {"w_held", "w_mid"}
    /\ LET i == IF pc[t] = "w_held" THEN 1 ELSE 2
       IN  data' = StoreWord(Only(cur[t]), i, arg[t][i])
    /\ pc' = [pc EXCEPT ![t] = IF pc[t] = "w_held" THEN "w_mid" ELSE "w_full"]
    /\ UNCHANGED <<dirVars, build, alive, rcount, writer, poisoned, cur, arg,
                   href, guard, obs, ret, inner, fault, history>>

\* drop(cached_guard); lock (lock.rs:138-139)
WriteReturn(t) ==
    /\ pc[t] = "w_full"
    /\ writer' = [writer EXCEPT ![Only(cur[t])] = {}]
    /\ href' = [href EXCEPT ![t] = {GetRefHandle(Only(cur[t]))}]
    /\ pc' = [pc EXCEPT ![t] = "idle"]
    /\ cur' = [cur EXCEPT ![t] = {}]
    /\ arg' = [arg EXCEPT ![t] = NoAsset]
    /\ dirty' = [dirty EXCEPT ![Only(cur[t])] = FALSE]
    /\ UNCHANGED <<dirVars, build, alive, data, rcount, poisoned,
                   guard, obs, ret, inner, fault, fresh, prev, last>>

\* A thread unwinds while it holds an AssetGuard: the guard is dropped.
PanicReader(t) ==
    /\ pc[t] = "idle"
    /\ guard[t] # {}
    /\ Unwound(t)
    /\ UNCHANGED <<dirVars, build, alive, data, writer, poisoned,
                   inner, fault, history>>

\* The drop of the old asset in `*cached_guard = asset` unwinds: the
\* assignment completes on the unwind path and the write guard is dropped,
\* which poisons a std lock (lock.rs:136-138).
PanicWriter(t) ==
    /\ pc[t] = "w_held"
    /\ data' = [data EXCEPT ![Only(cur[t])] = arg[t]]
    /\ writer' = [writer EXCEPT ![Only(cur[t])] = {}]
    /\ poisoned' = [poisoned EXCEPT ![Only(cur[t])] = PoisonOnUnwind]
    /\ Unwound(t)
    /\ UNCHANGED <<dirVars, build, alive, inner, fault, history>>

\* a write that gives up instead of waiting (try_write) and returns
WriteGivesUp(t) ==
    /\ pc[t] \in {"w_wait", "w_parked"}
    /\ cur[t] = guard[t]
    /\ pc' = [pc EXCEPT ![t] = "idle"]
    /\ cur' = [cur EXCEPT ![t] = {}]
    /\ arg' = [arg EXCEPT ![t] = NoAsset]
    /\ UNCHANGED <<dirVars, build, lockState, href, guard, obs, ret,
                   inner, fault, history>>

\* lock.data.write() by a thread that holds a read guard of the same lock:
\* a std lock may panic instead of waiting (lock.rs:55-57, 136)
WriteSelfPanic(t) ==
    /\ ~parking_lot
    /\ pc[t] \in {"w_wait", "w_parked"}
    /\ cur[t] = guard[t]
    /\ Unwound(t)
    /\ UNCHANGED <<dirVars, build, alive, data, writer, poisoned,
                   inner, fault, history>>

\* a new thread takes the place of one that terminated
Respawn(t) ==
    /\ pc[t] = "panicked"
    /\ pc' = [pc EXCEPT ![t] = "idle"]
    /\ UNCHANGED <<dirVars, build, lockState, cur, arg, href, guard, obs, ret,
                   inner, fault, history>>

\* RwLock::get_mut by the exclusive owner (lock.rs:60-62)
GetMut(s) ==
    /\ alive[s]
    /\ Exclusive(s)
    /\ LET r == wrap(LockResult(s, data[s]))
       IN  fault' = (fault \/ r = <<>>)
    /\ UNCHANGED <<dirVars, build, lockState, threadState, inner, history>>

\* CacheEntry::into_inner (lock.rs:148-152)
IntoInner(s) ==
    /\ alive[s]
    /\ Exclusive(s)
    /\ LET r == IntoInnerValue(s)
       IN  /\ inner' = [inner EXCEPT ![s] = IF r = <<>> THEN NoAsset ELSE r[1]]
           /\ fault' = (fault \/ r = <<>>)
    /\ alive' = [alive EXCEPT ![s] = FALSE]
    /\ data' = [data EXCEPT ![s] = NoAsset]
    /\ poisoned' = [poisoned EXCEPT ![s] = FALSE]
    /\ dirty' = [dirty EXCEPT ![s] = FALSE]
    /\ prev' = [prev EXCEPT ![s] = NoAsset]
    /\ UNCHANGED <<dirVars, build, rcount, writer, threadState, fresh, last>>

\* the handle operations of the threads on the slots of S
RefNext(S) ==
    \/ \E s \in S, v \in Assets : New(s, v)
    \/ \E t \in Workers, s \in S : GetRef(t, s)
    \/ \E t \in Workers, u \in Workers : CloneRef(t, u)
    \/ \E t \in Workers : DropRef(t)
    \/ \E t \in Workers, s \in S, v \in Assets : WriteCall(t, s, v)
    \/ \E t \in Workers : WritePark(t)
    \/ \E t \in Workers : WriteAcquire(t)
    \/ \E t \in Workers : WriteWord(t)
    \/ \E t \in Workers : WriteReturn(t)
    \/ \E s \in S : IntoInner(s)

\* every operation of the threads on the slots of S
SlotNext(S) ==
    \/ \E s \in S, v \in Assets : New(s, v)
    \/ \E t \in Workers, s \in S : GetRef(t, s)
    \/ \E t \in Workers, u \in Workers : CloneRef(t, u)
    \/ \E t \in Workers : DropRef(t)
    \/ \E t \in Workers : ReadCall(t)
    \/ \E t \in Workers : ReadAcquire(t)
    \/ \E t \in Workers : Deref(t)
    \/ \E t \in Workers : DropGuard(t)
    \/ \E t \in Workers : ClonedCall(t)
    \/ \E t \in Workers : ClonedAcquire(t)
    \/ \E t \in Workers : ClonedCopy(t)
    \/ \E t \in Workers : ClonedReturn(t)
    \/ \E t \in Workers, s \in S, v \in Assets : WriteCall(t, s, v)
    \/ \E t \in Workers : WritePark(t)
    \/ \E t \in Workers : WriteAcquire(t)
    \/ \E t \in Workers : WriteWord(t)
    \/ \E t \in Workers : WriteReturn(t)
    \/ \E t \in Workers : PanicReader(t)
    \/ \E t \in Workers : PanicWriter(t)
    \/ \E t \in Workers : WriteSelfPanic(t)
    \/ \E t \in Workers : Respawn(t)
    \/ \E s \in S : GetMut(s)
    \/ \E s \in S : IntoInner(s)

\* reads and writes of all the threads on the slots of S; the writes all
\* carry the same asset
WaitNext(S) ==
    \/ \E s \in S, v \in Assets : New(s, v)
    \/ \E t \in Threads, s \in S : GetRef(t, s)
    \/ \E t \in Threads : ReadCall(t)
    \/ \E t \in Threads : ReadAcquire(t)
    \/ \E t \in Threads : DropGuard(t)
    \/ \E t \in Threads, s \in S, v \in {Asset(1)} : WriteCall(t, s, v)
    \/ \E t \in Threads : WritePark(t)
    \/ \E t \in Threads : WriteAcquire(t)
    \/ \E t \in Threads : WriteWord(t)
    \/ \E t \in Threads : WriteReturn(t)
    \/ \E t \in Threads : WriteSelfPanic(t)
    \/ \E t \in Threads : Respawn(t)

\* ==================================================================== claims
\* threads holding a read lock of slot s: an AssetGuard, or the temporary
\* guard of cloned
Readers(s) ==
    {t \in Threads : s \in guard[t]} \cup
    {t \in Threads : pc[t] = "c_held" /\ s \in cur[t]}

\* threads holding the write lock of slot s inside CacheEntry::write
Writers(s) ==
    {t \in Threads : pc[t] \in {"w_held", "w_mid", "w_full"} /\ s \in cur[t]}

\* thread t holds an AssetGuard and has read the whole asset through it
HasRead(t) == guard[t] # {} /\ pc[t] = "idle" /\ Len(obs[t]) = WordsOfT

\* C1: on every slot, a write holds the lock only while no read guard is
\* outstanding and a read guard is outstanding only while no write holds the
\* lock; the lock's own counts agree with the guards the threads hold.
C1_ReadWriteExclusion ==
    \A s \in Slots :
        /\ Writers(s) # {} => Readers(s) = {}
        /\ Readers(s) # {} => Writers(s) = {}
        /\ Cardinality(Writers(s)) <= 1
        /\ writer[s] = Writers(s)
        /\ rcount[s] = Cardinality(Readers(s))

\* C1 witness: two read guards of two threads are outstanding on one slot
\* at the same time.
C1_Witness ==
    \E s \in Slots :
        /\ Cardinality({t \in Threads : s \in guard[t]}) >= 2
        /\ rcount[s] >= 2

\* C2: a whole asset read through a read guard (or copied by cloned) is the
\* asset stored before the most recent write or the asset of that write,
\* never a mixture of their words.
C2_NoTornRead ==
    \A t \in Threads :
        /\ HasRead(t) =>
              obs[t] \in {prev[Only(guard[t])], last[Only(guard[t])]}
        /\ (pc[t] = "c_held" /\ Len(ret[t]) = WordsOfT) =>
              ret[t] \in {prev[Only(cur[t])], last[Only(cur[t])]}

\* C2 witness: a reader has read the asset of a write that replaced a
\* different asset, while another thread is inside a write call on the slot.
C2_Witness ==
    \E t \in Threads, u \in Threads :
        /\ HasRead(t)
        /\ prev[Only(guard[t])] # last[Only(guard[t])]
        /\ obs[t] = last[Only(guard[t])]
        /\ pc[u] = "w_wait"
        /\ cur[u] = guard[t]
        /\ arg[u] # obs[t]

\* C3: once a write has returned and no later write has taken the lock,
\* every read guard on the slot, through whichever handle, reads the asset
\* of that write.
C3_WriteVisible ==
    \A t \in Threads :
        (HasRead(t) /\ ~fresh[Only(guard[t])] /\ ~dirty[Only(guard[t])])
            => obs[t] = last[Only(guard[t])]

\* C3 witness: a handle obtained before the write (it saw another asset)
\* reads the written asset after the write returned.
C3_Witness ==
    \E t \in Threads :
        /\ HasRead(t)
        /\ ~fresh[Only(guard[t])]
        /\ ~dirty[Only(guard[t])]
        /\ href[t] # {}
        /\ Only(href[t]).slot \in guard[t]
        /\ Only(href[t]).saw # last[Only(guard[t])]
        /\ obs[t] = last[Only(guard[t])]

\* C4: a slot created by new(v) and not written since reads as v through
\* get_ref and a read guard, and into_inner returns v.
C4_RoundTrip ==
    \A s \in Slots :
        fresh[s] =>
            /\ \A t \in Threads :
                  (HasRead(t) /\ s \in guard[t]) => obs[t] = last[s]
            /\ (~alive[s] /\ inner[s] # NoAsset) => inner[s] = last[s]

\* C4 witness: into_inner of a never written slot returned the asset given
\* to new, an asset that is not the first one.
C4_Witness ==
    \E s \in Slots :
        /\ fresh[s]
        /\ ~alive[s]
        /\ inner[s] = Asset(MaxVal)
        /\ last[s] = Asset(MaxVal)

\* the handles the threads hold
Handles == UNION {href[t] : t \in Threads}

\* C5: two handles are ptr_eq exactly when they were obtained from the same
\* slot, whatever was written to the slots since.
C5_PtrEqIsSlotIdentity ==
    \A a \in Handles, b \in Handles : ptr_eq(a, b) <=> a.slot = b.slot

\* C5 witness: handles of two distinct slots that hold equal assets are not
\* ptr_eq, one of the slots having been written.
C5_Witness ==
    \E a \in Handles, b \in Handles :
        /\ a.slot # b.slot
        /\ data[a.slot] = data[b.slot]
        /\ ~fresh[a.slot]
        /\ ~ptr_eq(a, b)

\* C6: no lock operation ever fails because of poisoning, and a thread that
\* unwound holds no lock.
C6_PoisonTolerated ==
    /\ ~fault
    /\ \A t \in Threads :
          pc[t] = "panicked" =>
              /\ guard[t] = {}
              /\ \A s \in Slots : t \notin writer[s] /\ t \notin Readers(s)
    /\ \A s \in Slots : rcount[s] = Cardinality(Readers(s))

\* C6 witness: the lock is poisoned and a later reader holds a guard on it
\* and has read the asset the unwinding write left.
C6_Witness ==
    \E t \in Threads :
        /\ HasRead(t)
        /\ poisoned[Only(guard[t])]
        /\ obs[t] = data[Only(guard[t])]

C18_GuardKept(t) == guard[t] # {} /\ guard'[t] = guard[t]

\* C18: while a read guard is held on a slot no write holds the slot's lock,
\* what was read through the guard is what the slot stores, and no step
\* under a kept guard changes what the slot stores or lets a write in: the
\* guard dereferences to the value it found for its whole lifetime, and a
\* write requested meanwhile takes effect only after the guard is dropped.
C18_GuardSeesOldValue ==
    /\ [](\A t \in Threads :
            guard[t] # {} =>
                /\ writer[Only(guard[t])] = {}
                /\ \A k \in 1..Len(obs[t]) :
                      obs[t][k] = data[Only(guard[t])][k])
    /\ [][\A t \in Threads :
            C18_GuardKept(t) =>
                /\ data'[Only(guard[t])] = data[Only(guard[t])]
                /\ writer'[Only(guard[t])] = {}]_vars

\* C18 witness: a thread has read the whole asset through its guard while
\* another thread's write of a different asset is queued on the slot.
C18_Witness ==
    \E t \in Threads, u \in Threads :
        /\ HasRead(t)
        /\ pc[u] = "w_parked"
        /\ cur[u] = guard[t]
        /\ arg[u] # obs[t]
        /\ obs[t] = data[Only(guard[t])]

\* thread t is inside lock.data.write(), not yet granted
Waiting(t) == pc[t] \in {"w_wait", "w_parked"}

\* thread t waits for the write lock of a slot it holds a read guard on
SelfBlocked(t) == Waiting(t) /\ cur[t] = guard[t]

\* another thread than t holds a write lock
OtherWrites(t) ==
    \E u \in Threads \ {t} : pc[u] \in {"w_held", "w_mid", "w_full"}

\* the write of t is not pending, or what holds it up is not a reader that
\* releases its guard: another write holds the lock, or a thread waits for
\* itself
C19_NotHeldUpByReaders(t) ==
    ~Waiting(t) \/ OtherWrites(t) \/ \E u \in Threads : SelfBlocked(u)

\* CacheEntry::write returns: no write lock and no read lock is held on the
\* slot afterwards
C19_ReturnsUnlocked ==
    \A t \in Threads :
        (pc[t] = "w_full" /\ pc'[t] = "idle") =>
            /\ writer'[Only(cur[t])] = {}
            /\ rcount'[Only(cur[t])] = 0
            /\ \A s \in Slots : t \notin writer'[s]

\* C19 (amended): CacheEntry::write leaves no lock held when it returns;
\* and on a lock that serves queued writers first, under fair scheduling, a
\* pending write is not held up forever by readers that each release their
\* guard.
C19_WriteReturns ==
    /\ [][C19_ReturnsUnlocked]_vars
    /\ \A t \in Threads : []<>(~writers_first \/ C19_NotHeldUpByReaders(t))

\* C19 witness: a write that had queued behind a read guard has returned and
\* left the slot unlocked, storing its asset.
C19_Witness ==
    \E t \in Threads, s \in Slots :
        /\ writers_first
        /\ pc[t] = "idle"
        /\ ~fresh[s] /\ ~dirty[s]
        /\ writer[s] = {} /\ rcount[s] = 0
        /\ href[t] # {}
        /\ Only(href[t]).saw = data[s]
        /\ prev[s] # data[s]

\* C19 as written: under fair scheduling, whatever the lock, a pending
\* write is not held up forever by readers that each release their guard.
C19_Original ==
    \A t \in Threads : []<>C19_NotHeldUpByReaders(t)

\* thread u waits for a lock of the slot that thread t is self-blocked on
C20_Behind(u, t) == u # t /\ cur[u] = cur[t]

\* what holds in a state where thread t is self-blocked: no write on the
\* slot can be granted, and once t is queued on a lock that serves writers
\* first no read either
C20_Blocks(t) ==
    /\ ~ENABLED WriteAcquire(t)
    /\ \A u \in Threads :
          (C20_Behind(u, t) /\ Waiting(u)) => ~ENABLED WriteAcquire(u)
    /\ \A u \in Threads :
          (C20_Behind(u, t) /\ pc[u] = "r_wait" /\ pc[t] = "w_parked"
              /\ writers_first) => ~ENABLED ReadAcquire(u)

\* C20 (amended): a thread that calls CacheEntry::write on a slot while it
\* holds a read guard on it never returns from write: it stays blocked in
\* every later state, and blocks the writes queued behind it and, on a lock
\* that serves writers first, the reads; unless the lock is std's and
\* panics in write, which unwinds the thread.
C20_SelfDeadlock ==
    /\ [](\A t \in Threads : SelfBlocked(t) => C20_Blocks(t))
    /\ [][\A t \in Threads :
            SelfBlocked(t) =>
                \/ SelfBlocked(t)'
                \/ ~parking_lot /\ pc'[t] = "panicked"]_vars

\* C20 witness: with parking_lot, a thread is queued for the write lock of
\* the slot it holds a read guard on; behind it another thread waits to
\* read and a third one is queued to write.
C20_Witness ==
    \E t \in Threads, u \in Threads, w \in Threads :
        /\ parking_lot
        /\ SelfBlocked(t) /\ pc[t] = "w_parked"
        /\ C20_Behind(u, t) /\ pc[u] = "r_wait"
        /\ C20_Behind(w, t) /\ pc[w] = "w_parked"
        /\ ~ENABLED ReadAcquire(u)
        /\ ~ENABLED WriteAcquire(w)

\* C20 as written: the thread stays blocked in write in every later state,
\* whatever the lock: the state is a deadlock.
C20_Original ==
    [][\A t \in Threads : SelfBlocked(t) => SelfBlocked(t)']_vars

\* =================================================================== dirs.rs
\* Strings are sequences of one-character strings.
MaxEntries == 4
MaxLoads == 2
MaxIds == 2
NumIters == 2

Iters == 1..NumIters
Dot == "."


\* ---- std::path::Path of an entry (dirs.rs:86-97)
LastDot(name) ==
    LET dots == {i \in 1..Len(name) : name[i] = Dot}
    IN  IF dots = {} THEN 0 ELSE CHOOSE i \in dots : \A j \in dots : j <= i

\* Path::extension: <<e>> for Some(e), <<>> for None
Extension(name) ==
    IF LastDot(name) <= 1 THEN <<>>
    ELSE <<SubSeq(name, LastDot(name) + 1, Len(name))>>

\* Path::file_stem().and_then(to_str): <<n>> for Some(n), <<>> for None
FileStem(e) ==
    IF ~e.utf8 THEN <<>>
    ELSE IF LastDot(e.name) <= 1 THEN <<e.name>>
    ELSE <<SubSeq(e.name, 1, LastDot(e.name) - 1)>>

\* path.extension().unwrap_or_else(|| "".as_ref()) != A::EXT (dirs.rs:88)
ExtMatches(e, x) ==
    (IF Extension(e.name) = <<>> THEN <<>> ELSE Extension(e.name)[1]) = x

\* a filter that also skips an entry whose id is already in the cache
PassesUncached(e, x) ==
    /\ e.ok /\ ExtMatches(e, x) /\ FileStem(e) # <<>> /\ e.isfile
    /\ (IF prefix = <<>> THEN FileStem(e)[1]
        ELSE prefix \o <<Dot>> \o FileStem(e)[1]) \notin cached

\* the entry reaches `loaded.push` (dirs.rs:85-97)
Passes(e, x) == e.ok /\ ExtMatches(e, x) /\ FileStem(e) # <<>> /\ e.isfile

\* an id that always gets the separator
ComposeIdAlwaysDot(id, name) == id \o <<Dot>> \o name

\* this_id (dirs.rs:98-102)
ComposeId(id, name) == IF id = <<>> THEN name ELSE id \o <<Dot>> \o name

\* a push that depends on the load having succeeded
PushOnlyLoaded(ok) == ok

\* `let _ = cache.load(..)`: the push follows whatever the result
\* (dirs.rs:104-105)
PushAfterLoad(ok) == TRUE

\* ---- the listings CachedDir::load is run on
Str1(a) == <<a>>
Str3(a, b) == <<a, Dot, b>>
File(name) == [name |-> name, ok |-> TRUE, utf8 |-> TRUE, isfile |-> TRUE]

\* the file name "d.": its extension is Some(""), its stem "d"
StrDot(a) == <<a, Dot>>

EntryPool ==
    { File(Str3("a", "x")), File(Str3("b", "x")), File(Str3("c", "y")),
      File(Str1("d")), File(StrDot("d")),
      [File(Str3("e", "x")) EXCEPT !.isfile = FALSE],
      [File(Str3("f", "x")) EXCEPT !.utf8 = FALSE],
      [File(Str3("g", "x")) EXCEPT !.ok = FALSE] }

SmallPool == { File(Str3("a", "x")), File(Str3("b", "x")), File(Str1("d")),
               File(StrDot("d")) }

Injective(f) == \A i, j \in DOMAIN f : i # j => f[i] # f[j]

ListingsOver(pool, n) ==
    UNION {{f \in [1..k -> pool] : Injective(f)} : k \in 0..n}

Exts == {Str1("x"), <<>>}
Prefixes == {<<>>, Str1("p")}

\* ---- StringList and StringIter (dirs.rs:17-71)
\* a cursor that never advances
AdvanceStuck(current) == current

\* self.current.offset(1) (dirs.rs:66)
Advance(current) == current + 1

\* a list read lock granted only when no other lock is held
ListCanReadAlone == listWriter = {} /\ listReaders = 0

\* self.list.read() (dirs.rs:36) is granted when no write lock is held
ListCanRead == listWriter = {}

\* a next() that takes the element out of the list
ListAfterTake(list, k) == SubSeq(list, 1, k - 1) \o SubSeq(list, k + 1, Len(list))

\* `let string = &*self.current` borrows element k (dirs.rs:64): what the
\* list is after next()
ListAfterYield(list, k) == list

\* an end bound one element past the list
IntoIterPastEnd(kind) == [kind |-> kind, current |-> 0, end |-> Len(assets) + 1,
                          fused |-> FALSE]

\* guard.as_ptr(), current.add(guard.len()), as element offsets (dirs.rs:36-38)
IntoIter(kind) == [kind |-> kind, current |-> 0, end |-> Len(assets),
                   fused |-> FALSE]

NoIter == [kind |-> "none", current |-> 0, end |-> 0, fused |-> FALSE]

\* a ReadDir that resolves ids through the full load path
ReadDirLookupLoad == "load"

\* the capability ReadDir::next uses (dirs.rs:235)
ReadDirLookup == "load_cached"

\* a loop that ends with whatever the first lookup returned
LoopBreaksAlways(found) == TRUE

\* `if let asset @ Some(_) = .. { break asset }` (dirs.rs:235-237): the loop
\* of ReadDir::next ends when the lookup found the asset
LoopBreaks(found) == found

\* ---- AssetCache, as its interface describes it
\* load(id): reuse when resident, else I/O that succeeds or fails
CacheLoadOk(id, io_ok) == id \in cached \/ io_ok

CacheAfterLoad(id, io_ok) == IF CacheLoadOk(id, io_ok) THEN cached \cup {id}
                             ELSE cached

DirIdle ==
    /\ ext = <<>>
    /\ prefix = <<>>
    /\ listing = <<>>
    /\ dpc = "off"
    /\ di = 0
    /\ this_id = <<>>
    /\ loaded = <<>>
    /\ assets = <<>>
    /\ loadLog = <<>>
    /\ snaps = <<>>
    /\ cached = {}
    /\ it = [i \in Iters |-> NoIter]
    /\ yielded = [i \in Iters |-> <<>>]
    /\ calls = [i \in Iters |-> {}]
    /\ visited = [i \in Iters |-> <<>>]
    /\ listReaders = 0
    /\ listWriter = {}

DirInitOver(pool, n) ==
    /\ ext \in Exts
    /\ prefix \in Prefixes
    /\ listing \in ListingsOver(pool, n)
    /\ dpc = "init"
    /\ di = 0
    /\ this_id = <<>>
    /\ loaded = <<>>
    /\ assets = <<>>
    /\ loadLog = <<>>
    /\ snaps = <<>>
    /\ cached = {}
    /\ it = [i \in Iters |-> NoIter]
    /\ yielded = [i \in Iters |-> <<>>]
    /\ calls = [i \in Iters |-> {}]
    /\ visited = [i \in Iters |-> <<>>]
    /\ listReaders = 0
    /\ listWriter = {}

SlotIdle ==
    /\ SlotInit
    /\ parking_lot = FALSE
    /\ writers_first = FALSE

\* fs::read_dir(path)? (dirs.rs:79-82)
DirOpen(ok) ==
    /\ dpc = "init"
    /\ dpc' = IF ok THEN "scan" ELSE "failed"
    /\ di' = IF ok THEN 1 ELSE 0
    /\ UNCHANGED <<snaps, ext, prefix, listing, this_id, loaded, assets, loadLog,
                   cached, iterVars, slotVars>>

\* an entry that does not reach the push: `continue` or a false `if`
SkipEntry ==
    /\ dpc = "scan"
    /\ di <= Len(listing)
    /\ ~Passes(listing[di], ext)
    /\ di' = di + 1
    /\ UNCHANGED <<snaps, ext, prefix, listing, dpc, this_id, loaded, assets,
                   loadLog, cached, iterVars, slotVars>>

\* let _ = cache.load::<A>(&this_id) (dirs.rs:98-104)
LoadEntry(io_ok) ==
    /\ dpc = "scan"
    /\ di <= Len(listing)
    /\ Passes(listing[di], ext)
    /\ LET id == ComposeId(prefix, FileStem(listing[di])[1])
       IN  /\ this_id' = id
           /\ loadLog' = Append(loadLog,
                  [id |-> id, ok |-> CacheLoadOk(id, io_ok),
                   pushed |-> Len(loaded)])
           /\ cached' = CacheAfterLoad(id, io_ok)
    /\ dpc' = "push"
    /\ UNCHANGED <<snaps, ext, prefix, listing, di, loaded, assets, iterVars,
                   slotVars>>

\* loaded.push(this_id) (dirs.rs:105)
PushEntry ==
    /\ dpc = "push"
    /\ loaded' = IF PushAfterLoad(loadLog[Len(loadLog)].ok)
                 THEN Append(loaded, this_id)
                 ELSE loaded
    /\ this_id' = <<>>
    /\ di' = di + 1
    /\ dpc' = "scan"
    /\ UNCHANGED <<snaps, ext, prefix, listing, assets, loadLog, cached, iterVars,
                   slotVars>>

\* Ok(Self { assets: Box::new(loaded.into()) }) (dirs.rs:110-112)
DirFinish ==
    /\ dpc = "scan"
    /\ di > Len(listing)
    /\ assets' = loaded
    /\ snaps' = Append(snaps, loaded)
    /\ loaded' = <<>>
    /\ dpc' = "ready"
    /\ UNCHANGED <<ext, prefix, listing, di, this_id, loadLog, cached,
                   iterVars, slotVars>>

\* CachedDir::load is called again on the same id, the listing unchanged:
\* it starts from an empty `loaded` (dirs.rs:78-82) and from the cache as the
\* calls before left it
LoadAgain ==
    /\ dpc \in {"ready", "failed"}
    /\ Len(snaps) < MaxLoads
    /\ \A i \in Iters : it[i].kind = "none"
    /\ dpc' = "init"
    /\ di' = 0
    /\ this_id' = <<>>
    /\ loaded' = <<>>
    /\ assets' = <<>>
    /\ loadLog' = <<>>
    /\ UNCHANGED <<snaps, ext, prefix, listing, cached, iterVars, slotVars>>

LoadNext ==
    \/ \E ok \in BOOLEAN : DirOpen(ok)
    \/ SkipEntry
    \/ \E io_ok \in BOOLEAN : LoadEntry(io_ok)
    \/ PushEntry
    \/ DirFinish

\* DirReader::iter / iter_all (dirs.rs:174-195) over StringList::into_iter
IterCreate(i, kind) ==
    /\ dpc = "ready"
    /\ it[i].kind = "none"
    /\ ListCanRead
    /\ it' = [it EXCEPT ![i] = IntoIter(kind)]
    /\ yielded' = [yielded EXCEPT ![i] = <<>>]
    /\ calls' = [calls EXCEPT ![i] = {}]
    /\ visited' = [visited EXCEPT ![i] = <<>>]
    /\ listReaders' = listReaders + 1
    /\ UNCHANGED <<loadVars, cached, listWriter, slotVars>>

\* StringIter::next returns None (dirs.rs:61-62), through either iterator
IterEnd(i) ==
    /\ it[i].kind # "none"
    /\ it[i].current = it[i].end
    /\ it' = [it EXCEPT ![i].fused = TRUE]
    /\ UNCHANGED <<loadVars, cached, yielded, calls, visited, listReaders,
                   listWriter, slotVars>>

\* one turn of the loop of ReadDir::next (dirs.rs:231-239)
ReadDirStep(i, io_ok) ==
    /\ it[i].kind = "iter"
    /\ it[i].current # it[i].end
    /\ LET id == assets[it[i].current + 1]
           found == IF ReadDirLookup = "load_cached" THEN id \in cached
                    ELSE CacheLoadOk(id, io_ok)
       IN  /\ it' = [it EXCEPT ![i].current = Advance(@)]
           /\ calls' = [calls EXCEPT ![i] = @ \cup {ReadDirLookup}]
           /\ cached' = IF ReadDirLookup = "load_cached" THEN cached
                        ELSE CacheAfterLoad(id, io_ok)
           /\ yielded' = IF LoopBreaks(found)
                         THEN [yielded EXCEPT ![i] =
                                 Append(@, [id |-> id, ok |-> TRUE,
                                            resident |-> id \in cached])]
                         ELSE yielded
           /\ visited' = [visited EXCEPT ![i] =
                            Append(@, [id |-> id, resident |-> id \in cached])]
           /\ assets' = ListAfterYield(assets, it[i].current + 1)
    /\ UNCHANGED <<ext, prefix, listing, dpc, di, this_id, loaded, loadLog, snaps,
                   listReaders, listWriter, slotVars>>

\* ReadAllDir::next (dirs.rs:263-266)
ReadAllDirStep(i, io_ok) ==
    /\ it[i].kind = "all"
    /\ it[i].current # it[i].end
    /\ LET id == assets[it[i].current + 1]
       IN  /\ it' = [it EXCEPT ![i].current = Advance(@)]
           /\ calls' = [calls EXCEPT ![i] = @ \cup {"load"}]
           /\ cached' = CacheAfterLoad(id, io_ok)
           /\ yielded' = [yielded EXCEPT ![i] =
                            Append(@, [id |-> id,
                                       ok |-> CacheLoadOk(id, io_ok),
                                       resident |-> id \in cached])]
           /\ visited' = [visited EXCEPT ![i] =
                            Append(@, [id |-> id, resident |-> id \in cached])]
           /\ assets' = ListAfterYield(assets, it[i].current + 1)
    /\ UNCHANGED <<ext, prefix, listing, dpc, di, this_id, loaded, loadLog, snaps,
                   listReaders, listWriter, slotVars>>

\* the iterator is dropped, and the read guard of the list with it
IterDrop(i) ==
    /\ it[i].kind # "none"
    /\ it' = [it EXCEPT ![i] = NoIter]
    /\ yielded' = [yielded EXCEPT ![i] = <<>>]
    /\ calls' = [calls EXCEPT ![i] = {}]
    /\ visited' = [visited EXCEPT ![i] = <<>>]
    /\ listReaders' = listReaders - 1
    /\ UNCHANGED <<loadVars, cached, listWriter, slotVars>>

\* the asset of a listed id leaves the cache
CacheRemove(n) ==
    /\ dpc = "ready"
    /\ n \in 1..Len(assets)
    /\ assets[n] \in cached
    /\ cached' = cached \ {assets[n]}
    /\ UNCHANGED <<loadVars, iterVars, slotVars>>

\* another caller's cache.load of a listed id succeeds
CacheInsert(n) ==
    /\ dpc = "ready"
    /\ n \in 1..Len(assets)
    /\ assets[n] \notin cached
    /\ cached' = cached \cup {assets[n]}
    /\ UNCHANGED <<loadVars, iterVars, slotVars>>

\* the source changes under a snapshot: its last file is removed, or a file
\* is added; CachedDir keeps no link to the source (dirs.rs:73-75)
SourceChange ==
    /\ dpc = "ready"
    /\ \/ /\ listing # <<>>
          /\ listing' = SubSeq(listing, 1, Len(listing) - 1)
       \/ /\ Len(listing) <= MaxIds
          /\ \A k \in 1..Len(listing) : listing[k].name # Str3("n", "x")
          /\ listing' = Append(listing, File(Str3("n", "x")))
    /\ UNCHANGED <<snaps, ext, prefix, dpc, di, this_id, loaded, assets,
                   loadLog, cached, iterVars, slotVars>>

IterNext ==
    \/ \E i \in Iters, kind \in {"iter", "all"} : IterCreate(i, kind)
    \/ \E i \in Iters : IterEnd(i)
    \/ \E i \in Iters, io_ok \in BOOLEAN : ReadDirStep(i, io_ok)
    \/ \E i \in Iters, io_ok \in BOOLEAN : ReadAllDirStep(i, io_ok)
    \/ \E i \in Iters : IterDrop(i)
    \/ \E n \in 1..MaxEntries : CacheRemove(n)
    \/ \E n \in 1..MaxEntries : CacheInsert(n)

\* ============================================================== claims (dirs)
\* C7: a ReadDir (DirReader::iter) invokes only load_cached, never load, and
\* every element it yields was resident in the cache when it was yielded.
C7_IterNeverLoads ==
    \A i \in Iters :
        it[i].kind = "iter" =>
            /\ calls[i] \subseteq {"load_cached"}
            /\ \A k \in 1..Len(yielded[i]) : yielded[i][k].resident

\* C7 witness: a complete traversal of a two-id snapshot looked both ids up,
\* skipped the one that is not resident and yielded the other.
C7_Witness ==
    \E i \in Iters :
        /\ it[i].kind = "iter"
        /\ it[i].fused
        /\ Len(assets) = 2
        /\ Len(yielded[i]) = 1
        /\ yielded[i][1].id = assets[2]
        /\ calls[i] = {"load_cached"}

\* C8: a ReadAllDir (DirReader::iter_all) has yielded one pair for each id
\* the cursor passed, in list order, a resident id always with an Ok result,
\* and when it has returned None it has yielded every id of the snapshot.
C8_IterAllExact ==
    \A i \in Iters :
        it[i].kind = "all" =>
            /\ Len(yielded[i]) = it[i].current
            /\ Len(yielded[i]) <= Len(assets)
            /\ \A k \in 1..Len(yielded[i]) :
                  /\ yielded[i][k].id = assets[k]
                  /\ yielded[i][k].resident => yielded[i][k].ok
            /\ it[i].fused => Len(yielded[i]) = Len(assets)

\* C8 witness: a complete traversal of a two-id snapshot whose first load
\* failed and whose second succeeded.
C8_Witness ==
    \E i \in Iters :
        /\ it[i].kind = "all"
        /\ it[i].fused
        /\ Len(yielded[i]) = 2
        /\ ~yielded[i][1].ok
        /\ yielded[i][2].ok

C9_HasExtension(e) == Extension(e.name) # <<>>

C9_Stem(e) == FileStem(e)[1]

C9_Id(e) ==
    IF prefix = <<>> THEN C9_Stem(e) ELSE prefix \o <<Dot>> \o C9_Stem(e)

C9_Ids(kept) == [k \in 1..Len(kept) |-> C9_Id(kept[k])]

\* kept by the claim as amended: an entry without extension matches the
\* empty extension
C9_Kept(e) ==
    /\ e.ok /\ e.utf8 /\ e.isfile
    /\ IF C9_HasExtension(e) THEN Extension(e.name)[1] = ext ELSE ext = <<>>

\* kept by the claim as written: only an entry that has an extension, equal
\* to the target's, matches
C9_KeptOriginal(e) ==
    /\ e.ok /\ e.utf8 /\ e.isfile
    /\ C9_HasExtension(e) /\ Extension(e.name)[1] = ext

\* C9 (amended): the snapshot lists, in enumeration order, exactly the
\* readable entries that are files with a valid name and whose extension
\* equals the target's, an entry without extension counting as having the
\* empty extension; each as prefix + "." + stem, or the stem alone when the
\* prefix is empty.
C9_LoadRecordsMatching ==
    dpc = "ready" => assets = C9_Ids(SelectSeq(listing, C9_Kept))

\* C9 witness: the listing [a.x, b.x, c.y, d] under prefix p and extension x
\* gave the ids [p.a, p.b].
C9_Witness ==
    /\ dpc = "ready"
    /\ prefix = Str1("p")
    /\ ext = Str1("x")
    /\ listing = <<File(Str3("a", "x")), File(Str3("b", "x")),
                   File(Str3("c", "y")), File(Str1("d"))>>
    /\ assets = <<Str3("p", "a"), Str3("p", "b")>>

\* C9 as written: every entry without extension is excluded from the
\* snapshot, whatever the target's extension is.
C9_Original ==
    dpc = "ready" => assets = C9_Ids(SelectSeq(listing, C9_KeptOriginal))

\* the list CachedDir::load has built so far
C10_List == IF dpc = "ready" THEN assets ELSE loaded

\* C10: CachedDir::load attempts exactly one cache.load per entry that
\* passes the filters, each before the push of its id and after the push of
\* the one before; the ids loaded are the ids recorded, failed or not; and a
\* load that returned an error attempted no entry load.
C10_LoadBestEffort ==
    /\ Len(loadLog) = Len(C10_List) + (IF dpc = "push" THEN 1 ELSE 0)
    /\ \A k \in 1..Len(loadLog) : loadLog[k].pushed = k - 1
    /\ \A k \in 1..Len(C10_List) : loadLog[k].id = C10_List[k]
    /\ dpc = "failed" => loadLog = <<>>
    /\ dpc = "ready" =>
          Len(loadLog) =
              Cardinality({k \in 1..Len(listing) : Passes(listing[k], ext)})

\* C10 witness: a load returned a snapshot of two ids, the load of the first
\* of which had failed.
C10_Witness ==
    /\ dpc = "ready"
    /\ Len(assets) = 2
    /\ ~loadLog[1].ok
    /\ loadLog[2].ok
    /\ assets[1] \notin cached

\* the cursor of iterator i is where it was, or further
C16_Forward(i) ==
    /\ it'[i].current >= it[i].current
    /\ it'[i].end = it[i].end
    /\ it[i].fused => (it'[i].fused /\ it'[i].current = it[i].current)

\* C16: a live iterator's cursor lies between the start of the list and the
\* end bound captured at creation, which is the end of the list; it has
\* made as many element steps as the cursor tells, at most one per id;
\* once next() returned None the cursor is at the end bound and no element
\* step is possible, only a next() that returns None again; and no step of
\* a live iterator moves the cursor back or changes the end bound.
C16_ForwardOnlyCursors ==
    /\ [](\A i \in Iters :
            it[i].kind # "none" =>
                /\ 0 <= it[i].current
                /\ it[i].current <= it[i].end
                /\ it[i].end = Len(assets)
                /\ Len(visited[i]) = it[i].current
                /\ it[i].fused =>
                      /\ it[i].current = it[i].end
                      /\ ENABLED IterEnd(i)
                      /\ \A io_ok \in BOOLEAN :
                            /\ ~ENABLED ReadDirStep(i, io_ok)
                            /\ ~ENABLED ReadAllDirStep(i, io_ok))
    /\ [][\A i \in Iters :
            (it[i].kind # "none" /\ it'[i].kind # "none") => C16_Forward(i)]_vars

\* C16 witness: an iter() and an iter_all() traversal of a two-id list have
\* both returned None after two element steps each.
C16_Witness ==
    \E i \in Iters, j \in Iters :
        /\ it[i].kind = "iter" /\ it[j].kind = "all"
        /\ it[i].fused /\ it[j].fused
        /\ it[i].end = 2 /\ it[j].end = 2
        /\ Len(visited[i]) = 2 /\ Len(visited[j]) = 2

\* the iterators that exist
C17_Live == {i \in Iters : it[i].kind # "none"}

\* C17: the read locks held on the identifier list are those of the live
\* iterators, one each from creation to drop, whatever calls their next()
\* made; nobody holds the write lock; and over a snapshot an iterator can
\* always be created at once, whatever the other iterators are doing.
C17_IteratorsShareReadLock ==
    /\ listReaders = Cardinality(C17_Live)
    /\ listWriter = {}
    /\ dpc = "ready" =>
          \A i \in Iters \ C17_Live :
              ENABLED IterCreate(i, "iter") /\ ENABLED IterCreate(i, "all")

\* C17 witness: an iter_all() traversal is under way, having called
\* cache.load, and holds a read lock of the list; another iterator can be
\* created now.
C17_Witness ==
    \E i \in Iters, j \in Iters :
        /\ it[i].kind = "all"
        /\ it[i].current = 1
        /\ it[i].end = 2
        /\ "load" \in calls[i]
        /\ listReaders = 1
        /\ it[j].kind = "none"
        /\ ENABLED IterCreate(j, "iter")

C15_Resident(v) == v.resident

C15_IdsOf(seq) == [k \in 1..Len(seq) |-> seq[k].id]

\* C15: a traversal of DirReader::iter() visits the ids of the snapshot in
\* list order, each entry of the list once, and has yielded, in that order,
\* exactly the visited ids that were resident in the cache when the cursor
\* reached them; it ends only after the last id of the list.
C15_IterYieldsResidentOnes ==
    \A i \in Iters :
        it[i].kind = "iter" =>
            /\ Len(visited[i]) = it[i].current
            /\ \A k \in 1..Len(visited[i]) : visited[i][k].id = assets[k]
            /\ C15_IdsOf(yielded[i]) =
                  C15_IdsOf(SelectSeq(visited[i], C15_Resident))
            /\ Len(yielded[i]) <= Len(visited[i])
            /\ it[i].fused => Len(visited[i]) = Len(assets)

\* C15 witness: a complete traversal skipped the first id, which was in the
\* cache when the snapshot was built and had left it when the cursor came,
\* went on, and yielded the second id, whose load had failed when the
\* snapshot was built and which was cached when the cursor came.
C15_Witness ==
    \E i \in Iters :
        /\ it[i].kind = "iter"
        /\ it[i].fused
        /\ Len(assets) = 2
        /\ loadLog[1].ok
        /\ ~loadLog[2].ok
        /\ ~visited[i][1].resident
        /\ visited[i][2].resident
        /\ C15_IdsOf(yielded[i]) = <<assets[2]>>

\* C11: CachedDir::load returns an error exactly when the enumeration of the
\* location fails: a load that returned an error produced no snapshot and
\* loaded nothing, and a load that returned a snapshot met no enumeration
\* error, so that no snapshot covers only a part of the location.
C11_ErrorIffEnumerationFails ==
    /\ dpc = "failed" => (assets = <<>> /\ loaded = <<>> /\ loadLog = <<>>)
    /\ dpc = "ready" => \A k \in 1..Len(listing) : listing[k].ok

\* C12: the snapshots returned by successive calls of CachedDir::load on the
\* same prefix over an unchanged listing have the same ids in the same
\* order, whatever the earlier calls left in the cache.
C12_LoadIdempotent ==
    \A i \in 1..Len(snaps), j \in 1..Len(snaps) : snaps[i] = snaps[j]

\* C12 witness: a second call returned a two-id snapshot; the load of its
\* first id failed in this call (hence in the first one too) and the second
\* id was reused from the cache.
C12_Witness ==
    /\ dpc = "ready"
    /\ Len(snaps) = 2
    /\ Len(snaps[2]) = 2
    /\ Len(loadLog) = 2
    /\ ~loadLog[1].ok
    /\ loadLog[2].ok
    /\ snaps[2][1] \notin cached

\* C14: once CachedDir::load has returned a snapshot, every step leaves its
\* identifier list as load returned it, contents and order, and nobody holds
\* or takes the write lock of the list.
C14_SnapshotListFrozen ==
    [][dpc = "ready" =>
          /\ assets' = assets
          /\ assets' = snaps[Len(snaps)]
          /\ listWriter = {}
          /\ listWriter' = {}]_vars

\* C14 witness: a two-id snapshot is unchanged after a source file was
\* removed, an id left the cache, an iter_all() traversal completed and
\* while an iter() traversal is under way.
C14_Witness ==
    /\ dpc = "ready"
    /\ Len(assets) = 2
    /\ assets = snaps[1]
    /\ Len(listing) < Len(assets)
    /\ assets[1] \notin cached
    /\ \E i \in Iters, j \in Iters :
          /\ it[i].kind = "all" /\ it[i].fused /\ Len(yielded[i]) = 2
          /\ it[j].kind = "iter" /\ it[j].current = 1

\* ============================================================ specifications
\* Spec: every operation, on one slot (the slots are independent: each has
\* its own lock)
Init == SlotInit /\ DirIdle
Next == SlotNext({1})
Spec == Init /\ [][Next]_vars

\* SpecRef: the handles of all the slots, and the writes
InitRef == SlotIdle /\ DirIdle
NextRef == RefNext(Slots)
SpecRef == InitRef /\ [][NextRef]_vars


\* a thread that holds a lock or was granted one goes on; a thread is free
\* not to call, and a std lock is free not to panic
WaitFair ==
    \A t \in Threads :
        /\ WF_vars(ReadAcquire(t))
        /\ WF_vars(DropGuard(t))
        /\ WF_vars(WritePark(t) \/ WriteAcquire(t))
        /\ WF_vars(WriteWord(t))
        /\ WF_vars(WriteReturn(t))

InitWait == SlotInit /\ DirIdle
NextWait == WaitNext({1})
SpecWait == InitWait /\ [][NextWait]_vars /\ WaitFair

InitLoad == SlotIdle /\ DirInitOver(EntryPool, MaxEntries)
NextLoad == LoadNext
SpecLoad == InitLoad /\ [][NextLoad]_vars

InitReload == SlotIdle /\ DirInitOver(EntryPool, MaxEntries)
NextReload == LoadNext \/ LoadAgain
SpecReload == InitReload /\ [][NextReload]_vars

InitHot == SlotIdle /\ DirInitOver(SmallPool, MaxIds)
NextHot == LoadNext \/ IterNext \/ SourceChange
SpecHot == InitHot /\ [][NextHot]_vars

InitDir == SlotIdle /\ DirInitOver(SmallPool, MaxIds)
NextDir == LoadNext \/ IterNext
SpecDir == InitDir /\ [][NextDir]_vars
====
